---- MODULE Spec2Model ----
(***************************************************************************)
(* A model of the Geero layer combinators as the sources use them:         *)
(*   - the debug decorators of `serial` and `Identity`                     *)
(*     (nn/decorators/serial_decorator.py, identity_decorator.py),         *)
(*   - shape inference through the ResNet blocks                           *)
(*     (training_examples/resnet.py),                                      *)
(*   - the categorical cross entropy loss                                  *)
(*     (nn/losses/categorical_cross_entropy.py),                           *)
(*   - the batch generator data_stream                                     *)
(*     (training_examples/mnist_aug.py, resnet.py).                        *)
(* Python values are modelled as follows: a tuple or list is a sequence,   *)
(* a call result is a record [exc, val] (exc = "none" when the call        *)
(* returns), a shape is a sequence of integers, and a tensor is a record   *)
(* [shape, id].                                                            *)
(***************************************************************************)
EXTENDS Integers, Sequences, FiniteSets, TLC

VARIABLES
    level,       \* logging.root.level, by name
    net,         \* the (init, apply) pair a call of serial(...) returned
    ident,       \* the (init, apply) pair a call of Identity() returned
    ret,         \* the last call of an init or apply function and its result
    printed,     \* the lines the last call printed through jax.debug.print
    shp,         \* the last shape inference (an init call in resnet.py)
    preds,       \* predictions batch given to categorical_cross_entropy
    targets,     \* targets batch given to categorical_cross_entropy
    loss,        \* the value categorical_cross_entropy returned
    num_train,   \* data_stream: train_images.shape[0]
    batch_size,  \* data_stream: batch_size
    perm,        \* data_stream: the permutation of the running epoch
    bi,          \* data_stream: the loop variable i of the running epoch
    epoch,       \* data_stream: number of permutations drawn so far
    yielded      \* data_stream: the item the last next(batches) returned

vars == <<level, net, ident, ret, printed, shp, preds, targets, loss,
          num_train, batch_size, perm, bi, epoch, yielded>>

decoVars   == <<level, net, ident, ret, printed>>
shapeVars  == <<shp>>
lossVars   == <<preds, targets, loss>>
streamVars == <<num_train, batch_size, perm, bi, epoch, yielded>>

(***************************************************************************)
(* Bounds of the model.                                                    *)
(***************************************************************************)
MaxDim == 4        \* largest height and width of a block's input
MaxChan == 2       \* largest channel and filter count of a block
MaxKernel == 3     \* largest kernel size of a block
MaxStride == 3     \* largest stride of a ConvBlock
MaxClasses == 3    \* largest num_classes given to ResNet
MaxB == 2          \* largest batch given to the loss
MaxK == 2          \* largest number of classes given to the loss
MaxTrain == 5      \* largest num_train of data_stream
MaxBatch == 3      \* largest batch_size of data_stream
MaxEpoch == 2      \* data_stream runs forever; the model stops after this many epochs

Levels == {"WARNING", "INFO2", "DEBUG"}
Batches == {-1, 1, 2}       \* batch dimensions; -1 is the wildcard mnist_aug.py uses
Rngs == {0, 1}

(***************************************************************************)
(* Python call results.                                                    *)
(***************************************************************************)
Ok(v) == [exc |-> "none", val |-> v]
Raise(e) == [exc |-> e, val |-> <<>>]

\* The shape standing for "init raised": no layer produces a 0-dimensional shape.
Err == <<>>

(***************************************************************************)
(* Layers.  A layer is a record; `wrapped` tells whether the pair is the   *)
(* debug wrapper of a decorator or the wrapped pair itself.                *)
(***************************************************************************)
Layer(kind, out, k, s, pad, sub, wrapped) ==
    [kind |-> kind, out |-> out, k |-> k, s |-> s, pad |-> pad, sub |-> sub,
     wrapped |-> wrapped]

NoLayer == Layer("none", 0, <<>>, <<>>, "", <<>>, FALSE)

\* strides default to (1, 1) and padding to "VALID"; callers pass them explicitly
Conv(out_chan, filter_shape, strides, padding) ==
    Layer("Conv", out_chan, filter_shape, strides, padding, <<>>, FALSE)
BatchNorm == Layer("BatchNorm", 0, <<>>, <<>>, "", <<>>, FALSE)
Relu == Layer("Relu", 0, <<>>, <<>>, "", <<>>, FALSE)
Elu == Layer("Elu", 0, <<>>, <<>>, "", <<>>, FALSE)
LogSoftmax == Layer("LogSoftmax", 0, <<>>, <<>>, "", <<>>, FALSE)
Flatten == Layer("Flatten", 0, <<>>, <<>>, "", <<>>, FALSE)
FanInSum == Layer("FanInSum", 0, <<>>, <<>>, "", <<>>, FALSE)
Dense(out_dim) == Layer("Dense", out_dim, <<>>, <<>>, "", <<>>, FALSE)
FanOut(num) == Layer("FanOut", num, <<>>, <<>>, "", <<>>, FALSE)
\* strides default to (1, ..., 1) and padding to "VALID"
AvgPool(window_shape, strides) ==
    Layer("AvgPool", 0, window_shape, strides, "VALID", <<>>, FALSE)
MaxPool(window_shape, strides) ==
    Layer("MaxPool", 0, window_shape, strides, "VALID", <<>>, FALSE)
parallel(layers) == Layer("parallel", 0, <<>>, <<>>, "", layers, FALSE)
\* shape_dependent(make_main): the closure variables of make_main are kept
shape_dependent(ks, filters) == Layer("shape_dependent", filters, ks, <<>>, "", <<>>, FALSE)

\* debug_decorator(serial_debug): the wrapper pair is returned iff the root
\* level is INFO2 when serial(...) is called, otherwise the wrapped pair
serial(layers) ==
    Layer("serial", 0, <<>>, <<>>, "", layers, level = "INFO2")

\* debug_decorator(identity_debug): as for serial
Identity ==
    Layer("Identity", 0, <<>>, <<>>, "", <<>>, level = "INFO2")

(***************************************************************************)
(* Lines printed through jax.debug.print.  A line is a sequence of         *)
(* strings: its fixed text followed by the formatted arguments.            *)
(***************************************************************************)
StartInit == <<"=== Start Init Fun Execution ===">>
TookInit == <<"Serial Initialization Took: {:.2f} seconds">>
EndInit == <<"=== End Init Fun Execution ===">>
StartForward == <<"=== Start Serial Forward Pass Execution ===">>
TookForward == <<"Forward Pass Took: {:.2f} ms">>
EndForward == <<"=== End Serial Forward Pass Execution ===">>

\* "...".format(shape) followed by .replace("-1", "*"), dimension by dimension
StarShape(shape) ==
    [i \in 1..Len(shape) |-> IF shape[i] = -1 THEN "*" ELSE ToString(shape[i])]
\* "...".format(array.shape)
PlainShape(shape) == [i \in 1..Len(shape) |-> ToString(shape[i])]

(***************************************************************************)
(* The Identity layer (wrapped pair) and its debug wrapper.  `args` is the *)
(* sequence of positional arguments of the call.                           *)
(***************************************************************************)
\* init_fun = lambda rng, input_shape: (input_shape, (), ())
identity_debug_init(args) ==
    IF Len(args) # 2 THEN Raise("TypeError") ELSE Ok(<<args[2], <<>>, <<>>>>)

\* apply_fun = lambda params, state, inputs, **kwargs: (inputs, state)
identity_debug_apply(args) ==
    IF Len(args) # 3 THEN Raise("TypeError") ELSE Ok(<<args[3], args[2]>>)

\* a wrapper that unpacks and returns two values, as the serial wrapper does
Identity_init_fun_pair(args) ==
    IF Len(args) # 2 THEN [res |-> Raise("TypeError"), out |-> <<>>]
    ELSE LET inner == identity_debug_init(<<args[1], args[2]>>) IN
         IF inner.exc # "none" THEN [res |-> inner, out |-> <<>>]
         ELSE IF Len(inner.val) # 2 THEN [res |-> Raise("ValueError"), out |-> <<>>]
         ELSE [res |-> Ok(<<inner.val[1], <<>>>>), out |-> <<>>]

\* identity_decorator.py, init_fun(rng, input_shape)
Identity_init_fun(args) ==
    IF Len(args) # 2 THEN [res |-> Raise("TypeError"), out |-> <<>>]
    ELSE LET inner == identity_debug_init(<<args[1], args[2]>>) IN
         IF inner.exc # "none" THEN [res |-> inner, out |-> <<>>]
         \* output_shape, (), state = ...: three values, the second one empty
         ELSE IF Len(inner.val) # 3 THEN [res |-> Raise("ValueError"), out |-> <<>>]
         ELSE IF Len(inner.val[2]) # 0 THEN [res |-> Raise("ValueError"), out |-> <<>>]
         ELSE [res |-> Ok(<<inner.val[1], <<>>, inner.val[3]>>),
               out |-> << <<"Identity(Input Shape: {}, Output Shape: {})">>
                          \o StarShape(args[2]) \o <<"|">> \o StarShape(inner.val[1]) >>]

\* identity_decorator.py, apply_fun(params, state, inputs, **kwargs)
Identity_apply_fun(args) ==
    IF Len(args) # 3 THEN [res |-> Raise("TypeError"), out |-> <<>>]
    ELSE LET inner == identity_debug_apply(<<args[1], args[2], args[3]>>) IN
         IF inner.exc # "none" THEN [res |-> inner, out |-> <<>>]
         \* result, state = ...
         ELSE IF Len(inner.val) # 2 THEN [res |-> Raise("ValueError"), out |-> <<>>]
         ELSE [res |-> Ok(<<inner.val[1], inner.val[2]>>),
               out |-> << <<"Identity{} = Output Shape: {}">>
                          \o PlainShape(args[3].shape) \o <<"|">>
                          \o PlainShape(inner.val[1].shape) >>]

\* the init function of the pair Identity() returned
IdentityInit(l, args) ==
    IF l.wrapped THEN Identity_init_fun(args)
    ELSE [res |-> identity_debug_init(args), out |-> <<>>]

\* the apply function of the pair Identity() returned
IdentityApply(l, args) ==
    IF l.wrapped THEN Identity_apply_fun(args)
    ELSE [res |-> identity_debug_apply(args), out |-> <<>>]

(***************************************************************************)
(* Shape inference of the layers: the first component of what a layer's    *)
(* init function returns.  The layer library follows the conventions of    *)
(* jax.example_libraries.stax (NHWC convolutions and pooling).             *)
(***************************************************************************)
\* output size of one spatial dimension of a convolution or a pooling window
ConvOutDim(d, k, s, pad) ==
    IF pad = "SAME" THEN (d + s - 1) \div s ELSE ((d - k) \div s) + 1

\* Conv(out_chan, filter_shape, strides, padding) on (N, H, W, C)
ConvShape(l, shape) ==
    IF Len(shape) # 4 THEN Err
    ELSE LET h == ConvOutDim(shape[2], l.k[1], l.s[1], l.pad)
             w == ConvOutDim(shape[3], l.k[2], l.s[2], l.pad)
         IN IF h < 1 \/ w < 1 THEN Err ELSE <<shape[1], h, w, l.out>>

\* AvgPool / MaxPool(window_shape, strides) on (N, H, W, C)
PoolShape(l, shape) ==
    IF Len(shape) # 4 THEN Err
    ELSE LET h == ConvOutDim(shape[2], l.k[1], l.s[1], l.pad)
             w == ConvOutDim(shape[3], l.k[2], l.s[2], l.pad)
         IN IF h < 1 \/ w < 1 THEN Err ELSE <<shape[1], h, w, shape[4]>>

RECURSIVE Prod(_, _)
\* the product of shape[from..]
Prod(shape, from) ==
    IF from > Len(shape) THEN 1 ELSE shape[from] * Prod(shape, from + 1)

\* Flatten: (N, d1, ..., dn) to (N, d1 * ... * dn)
FlattenShape(shape) == <<shape[1], Prod(shape, 2)>>

\* Dense(out_dim): the last dimension becomes out_dim
DenseShape(l, shape) == [shape EXCEPT ![Len(shape)] = l.out]

\* per-layer parameters and states of a serial: tokens, one per layer
ParamsOf(layers, rng) ==
    [i \in 1..Len(layers) |->
        IF layers[i].kind \in {"Relu", "Elu", "LogSoftmax", "Flatten", "FanInSum",
                               "FanOut", "Identity", "AvgPool", "MaxPool"}
        THEN <<>> ELSE <<rng, i>>]
StatesOf(layers) == [i \in 1..Len(layers) |-> 0]

\* make_main with a filters2-channel last convolution
make_main_filters2(ks, filters, input_shape) ==
    serial(<<
        Conv(filters[1], <<1, 1>>, <<1, 1>>, "VALID"),
        BatchNorm,
        Relu,
        Conv(filters[2], <<ks, ks>>, <<1, 1>>, "SAME"),
        BatchNorm,
        Relu,
        Conv(filters[2], <<1, 1>>, <<1, 1>>, "VALID"),
        BatchNorm >>)

\* IdentityBlock.make_main(input_shape), with its closure variables ks and filters
make_main(ks, filters, input_shape) ==
    serial(<<
        Conv(filters[1], <<1, 1>>, <<1, 1>>, "VALID"),
        BatchNorm,
        Relu,
        Conv(filters[2], <<ks, ks>>, <<1, 1>>, "SAME"),
        BatchNorm,
        Relu,
        Conv(input_shape[4], <<1, 1>>, <<1, 1>>, "VALID"),
        BatchNorm >>)

\* serial_decorator.py, init_fun(rng, input_shape); `inner` is what
\* init_fun_debug(rng, input_shape) returned.  jax.debug.breakpoint() is not modelled.
serial_init_fun(args, inner) ==
    IF Len(args) # 2 THEN [res |-> Raise("TypeError"), out |-> <<>>]
    ELSE IF inner.exc # "none" THEN [res |-> inner, out |-> <<StartInit>>]
    \* output_shape, params = init_fun_debug(rng, input_shape)
    ELSE IF Len(inner.val) # 2 THEN [res |-> Raise("ValueError"), out |-> <<StartInit>>]
    ELSE [res |-> Ok(<<inner.val[1], inner.val[2]>>),
          out |-> <<StartInit, TookInit, EndInit>>]

RECURSIVE InitShape(_, _)
RECURSIVE SerialTrace(_, _, _)
RECURSIVE serial_debug_init(_, _)

\* the shapes after each of layers[from..], threading each output shape into
\* the next layer; a layer whose init raises leaves Err for itself and the rest
SerialTrace(layers, shape, from) ==
    IF from > Len(layers) THEN <<>>
    ELSE LET o == InitShape(layers[from], shape)
         IN <<o>> \o SerialTrace(layers, o, from + 1)

\* the output shape of serial(*layers) on input_shape
SerialShape(layers, shape) ==
    IF Len(layers) = 0 THEN shape
    ELSE SerialTrace(layers, shape, 1)[Len(layers)]

\* the wrapped serial's init_fun(rng, input_shape): (output_shape, params, states)
serial_debug_init(layers, args) ==
    IF Len(args) # 2 THEN Raise("TypeError")
    ELSE LET o == SerialShape(layers, args[2])
         IN IF o = Err THEN Raise("ShapeError")
            ELSE Ok(<<o, ParamsOf(layers, args[1]), StatesOf(layers)>>)

\* the init function of the pair serial(*layers) returned
SerialInit(l, args) ==
    IF l.wrapped THEN serial_init_fun(args, serial_debug_init(l.sub, args))
    ELSE [res |-> serial_debug_init(l.sub, args), out |-> <<>>]

\* the output shape init_fun(rng, input_shape) of layer l returns, Err if it raises
InitShape(l, shape) ==
    IF shape = Err THEN Err
    ELSE CASE l.kind = "Conv" -> ConvShape(l, shape)
           [] l.kind \in {"AvgPool", "MaxPool"} -> PoolShape(l, shape)
           [] l.kind \in {"BatchNorm", "Relu", "Elu", "LogSoftmax"} -> shape
           [] l.kind = "Flatten" -> FlattenShape(shape)
           [] l.kind = "Dense" -> DenseShape(l, shape)
           [] l.kind = "FanOut" -> [i \in 1..l.out |-> shape]
           [] l.kind = "FanInSum" -> shape[1]
           [] l.kind = "parallel" ->
                LET outs == [i \in 1..Len(l.sub) |-> InitShape(l.sub[i], shape[i])]
                IN IF \E i \in 1..Len(outs) : outs[i] = Err THEN Err ELSE outs
           [] l.kind = "Identity" ->
                LET r == IdentityInit(l, <<0, shape>>).res
                IN IF r.exc = "none" THEN r.val[1] ELSE Err
           [] l.kind = "serial" ->
                LET r == SerialInit(l, <<0, shape>>).res
                IN IF r.exc = "none" THEN r.val[1] ELSE Err
           \* init_fun = lambda rng, input_shape: make_layer(input_shape)[0](rng, input_shape)
           [] l.kind = "shape_dependent" ->
                InitShape(make_main(l.k, l.out, shape), shape)
           [] OTHER -> Err

(***************************************************************************)
(* training_examples/resnet.py                                             *)
(***************************************************************************)
\* ConvBlock whose Shortcut convolution has the default strides
ConvBlock_unstrided(kernel_size, filters, strides) ==
    LET ks == kernel_size
        Main == serial(<<
            Conv(filters[1], <<1, 1>>, strides, "VALID"),
            BatchNorm,
            Relu,
            Conv(filters[2], <<ks, ks>>, <<1, 1>>, "SAME"),
            BatchNorm,
            Relu,
            Conv(filters[3], <<1, 1>>, <<1, 1>>, "VALID"),
            BatchNorm >>)
        Shortcut == serial(<<Conv(filters[3], <<1, 1>>, <<1, 1>>, "VALID"), BatchNorm>>)
    IN serial(<<FanOut(2), parallel(<<Main, Shortcut>>), FanInSum, Relu>>)

ConvBlock(kernel_size, filters, strides) ==
    LET ks == kernel_size
        Main == serial(<<
            Conv(filters[1], <<1, 1>>, strides, "VALID"),
            BatchNorm,
            Relu,
            Conv(filters[2], <<ks, ks>>, <<1, 1>>, "SAME"),
            BatchNorm,
            Relu,
            Conv(filters[3], <<1, 1>>, <<1, 1>>, "VALID"),
            BatchNorm >>)
        Shortcut == serial(<<Conv(filters[3], <<1, 1>>, strides, "VALID"), BatchNorm>>)
    IN serial(<<FanOut(2), parallel(<<Main, Shortcut>>), FanInSum, Relu>>)

IdentityBlock(kernel_size, filters) ==
    LET Main == shape_dependent(kernel_size, filters)
    IN serial(<<FanOut(2), parallel(<<Main, Identity>>), FanInSum, Relu>>)

\* ResNet whose second ConvBlock keeps the spatial size (strides (1, 1))
ResNet_unstrided(num_classes) ==
    serial(<<
        Conv(64, <<3, 3>>, <<1, 1>>, "SAME"),
        BatchNorm, Relu,
        IdentityBlock(3, <<64, 64>>),
        IdentityBlock(3, <<64, 64>>),
        ConvBlock(3, <<64, 64, 128>>, <<2, 2>>),
        IdentityBlock(3, <<128, 128>>),
        IdentityBlock(3, <<128, 128>>),
        ConvBlock(3, <<128, 128, 256>>, <<1, 1>>),
        IdentityBlock(3, <<256, 256>>),
        IdentityBlock(3, <<256, 256>>),
        AvgPool(<<8, 8>>, <<1, 1>>),
        Flatten,
        Dense(num_classes),
        LogSoftmax >>)

\* ConvBlock's strides default to (2, 2)
ResNet(num_classes) ==
    serial(<<
        Conv(64, <<3, 3>>, <<1, 1>>, "SAME"),
        BatchNorm, Relu,
        IdentityBlock(3, <<64, 64>>),
        IdentityBlock(3, <<64, 64>>),
        ConvBlock(3, <<64, 64, 128>>, <<2, 2>>),
        IdentityBlock(3, <<128, 128>>),
        IdentityBlock(3, <<128, 128>>),
        ConvBlock(3, <<128, 128, 256>>, <<2, 2>>),
        IdentityBlock(3, <<256, 256>>),
        IdentityBlock(3, <<256, 256>>),
        AvgPool(<<8, 8>>, <<1, 1>>),
        Flatten,
        Dense(num_classes),
        LogSoftmax >>)

(***************************************************************************)
(* The forward pass of a serial and its debug wrapper.                     *)
(***************************************************************************)
\* the wrapped serial's apply_fun(params, states, inputs, **kwargs):
\* (outputs, new_states); the numeric content of a tensor is its id
serial_debug_apply(layers, args) ==
    IF Len(args) # 3 THEN Raise("TypeError")
    ELSE LET o == SerialShape(layers, args[3].shape)
         IN IF o = Err THEN Raise("ShapeError")
            ELSE Ok(<< [shape |-> o, id |-> args[3].id],
                       [i \in 1..Len(args[2]) |->
                           IF layers[i].kind = "BatchNorm"
                           THEN (args[2][i] + 1) % 2 ELSE args[2][i]] >>)

\* serial_decorator.py, apply_fun(params, inputs, **kwargs).
\* jax.debug.breakpoint() is not modelled.
serial_apply_fun(layers, args) ==
    IF Len(args) # 2 THEN [res |-> Raise("TypeError"), out |-> <<>>]
    ELSE IF level = "INFO2"
         THEN LET result == serial_debug_apply(layers, <<args[1], args[2]>>)
              IN IF result.exc # "none" THEN [res |-> result, out |-> <<StartForward>>]
                 ELSE [res |-> result, out |-> <<StartForward, TookForward, EndForward>>]
         ELSE [res |-> serial_debug_apply(layers, <<args[1], args[2]>>), out |-> <<>>]

\* the apply function of the pair serial(*layers) returned
SerialApply(l, args) ==
    IF l.wrapped THEN serial_apply_fun(l.sub, args)
    ELSE [res |-> serial_debug_apply(l.sub, args), out |-> <<>>]

(***************************************************************************)
(* training_examples/mnist_aug.py: the network given to serial.            *)
(***************************************************************************)
MnistLayers ==
    << Conv(16, <<5, 5>>, <<1, 1>>, "SAME"), Elu,
       MaxPool(<<2, 2>>, <<2, 2>>),
       Conv(32, <<3, 3>>, <<1, 1>>, "SAME"), Elu,
       MaxPool(<<2, 2>>, <<2, 2>>),
       Flatten,
       Dense(84), Elu,
       Dense(10), LogSoftmax >>

\* input shapes given to init: net_init(rng, (-1, 28, 28, 1)), and one no
\* convolution accepts
InputShapes == {<<n, 28, 28, 1>> : n \in Batches} \cup {<<1, 28, 28>>}
\* input tensors given to apply
Inputs == {[shape |-> <<n, 28, 28, 1>>, id |-> d] : n \in {1, 2}, d \in {0, 1}}
\* params and state values given to the Identity layer
Tuples == {<<>>, <<1>>}

NoCall == [op |-> "none", args |-> <<>>, lvl |-> "", wrapped |-> FALSE, got |-> Raise("none"), ref |-> Raise("none")]
NoShape == [op |-> "none", in |-> <<>>, ks |-> 0, filters |-> <<>>, strides |-> <<>>,
            nc |-> 0, out |-> <<>>, trace |-> <<>>]

(***************************************************************************)
(* Specification Spec: a client of the decorated serial and Identity.      *)
(***************************************************************************)
Init ==
    /\ level = "WARNING"        \* the default level of the root logger
    /\ net = NoLayer
    /\ ident = NoLayer
    /\ ret = NoCall
    /\ printed = <<>>
    /\ shp = NoShape
    /\ preds = <<>> /\ targets = <<>> /\ loss = [num |-> 0, den |-> 0]
    /\ num_train = 0 /\ batch_size = 0 /\ perm = <<>> /\ bi = 0 /\ epoch = 0
    /\ yielded = [images |-> <<>>, labels |-> <<>>]

\* logging.root.setLevel(l)
SetLevel ==
    /\ \E l \in Levels \ {level} : level' = l
    /\ UNCHANGED <<net, ident, ret, printed, shapeVars, lossVars, streamVars>>

\* net = serial(*layers)
BuildSerial ==
    /\ net' = serial(MnistLayers)
    /\ UNCHANGED <<level, ident, ret, printed, shapeVars, lossVars, streamVars>>

\* ident = Identity()
BuildIdentity ==
    /\ ident' = Identity
    /\ UNCHANGED <<level, net, ret, printed, shapeVars, lossVars, streamVars>>

\* net[0](rng, input_shape)
CallSerialInit ==
    /\ net.kind = "serial"
    /\ \E rng \in Rngs, shape \in InputShapes :
         LET args == <<rng, shape>>
             r == SerialInit(net, args)
         IN /\ ret' = [op |-> "serial.init", args |-> args, lvl |-> level,
                       wrapped |-> net.wrapped,
                       got |-> r.res, ref |-> serial_debug_init(net.sub, args)]
            /\ printed' = r.out
    /\ UNCHANGED <<level, net, ident, shapeVars, lossVars, streamVars>>

\* net[1](params, states, inputs), the call of the layer contract, or
\* net[1](params, inputs), the call the wrapper's signature is written for
CallSerialApply ==
    /\ net.kind = "serial"
    /\ \E rng \in Rngs, x \in Inputs, withStates \in BOOLEAN :
         LET args == IF withStates
                     THEN <<ParamsOf(net.sub, rng), StatesOf(net.sub), x>>
                     ELSE <<ParamsOf(net.sub, rng), x>>
             r == SerialApply(net, args)
         IN /\ ret' = [op |-> "serial.apply", args |-> args, lvl |-> level,
                       wrapped |-> net.wrapped,
                       got |-> r.res, ref |-> serial_debug_apply(net.sub, args)]
            /\ printed' = r.out
    /\ UNCHANGED <<level, net, ident, shapeVars, lossVars, streamVars>>

\* ident[0](rng, input_shape)
CallIdentityInit ==
    /\ ident.kind = "Identity"
    /\ \E rng \in Rngs, shape \in InputShapes :
         LET args == <<rng, shape>>
             r == IdentityInit(ident, args)
         IN /\ ret' = [op |-> "Identity.init", args |-> args, lvl |-> level,
                       wrapped |-> ident.wrapped,
                       got |-> r.res, ref |-> identity_debug_init(args)]
            /\ printed' = r.out
    /\ UNCHANGED <<level, net, ident, shapeVars, lossVars, streamVars>>

\* ident[1](params, state, inputs)
CallIdentityApply ==
    /\ ident.kind = "Identity"
    /\ \E params \in Tuples, state \in Tuples, x \in Inputs :
         LET args == <<params, state, x>>
             r == IdentityApply(ident, args)
         IN /\ ret' = [op |-> "Identity.apply", args |-> args, lvl |-> level,
                       wrapped |-> ident.wrapped,
                       got |-> r.res, ref |-> identity_debug_apply(args)]
            /\ printed' = r.out
    /\ UNCHANGED <<level, net, ident, shapeVars, lossVars, streamVars>>

Next ==
    \/ SetLevel
    \/ BuildSerial
    \/ BuildIdentity
    \/ CallSerialInit
    \/ CallSerialApply
    \/ CallIdentityInit
    \/ CallIdentityApply

Spec == Init /\ [][Next]_vars

(***************************************************************************)
(* Specification SpecShape: init calls of resnet.py.  The script never     *)
(* sets the level of the root logger, so it stays at the default.          *)
(***************************************************************************)
\* what init of `block`, a serial, on input shape `in` infers
Infer(op, block, in, ks, filters, strides, nc) ==
    [op |-> op, in |-> in, ks |-> ks, filters |-> filters, strides |-> strides,
     nc |-> nc, out |-> InitShape(block, in), trace |-> SerialTrace(block.sub, in, 1)]

\* IdentityBlock(ks, filters)[0](rng, input_shape)
InitIdentityBlock ==
    /\ shp.op = "none"      \* one init call per run of the script
    /\ \E n \in Batches, h \in 1..MaxDim, w \in 1..MaxDim, c \in 1..MaxChan,
          ks \in 1..MaxKernel, f1 \in 1..MaxChan, f2 \in 1..MaxChan :
         shp' = Infer("IdentityBlock", IdentityBlock(ks, <<f1, f2>>), <<n, h, w, c>>,
                      ks, <<f1, f2>>, <<1, 1>>, 0)
    /\ UNCHANGED <<decoVars, lossVars, streamVars>>

\* ConvBlock(ks, filters, strides)[0](rng, input_shape)
InitConvBlock ==
    /\ shp.op = "none"      \* one init call per run of the script
    /\ \E n \in Batches, h \in 1..MaxDim, w \in 1..MaxDim, c \in 1..MaxChan,
          ks \in 1..MaxKernel, f1 \in 1..MaxChan, f2 \in 1..MaxChan,
          f3 \in 1..MaxChan, st \in 1..MaxStride :
         shp' = Infer("ConvBlock", ConvBlock(ks, <<f1, f2, f3>>, <<st, st>>),
                      <<n, h, w, c>>, ks, <<f1, f2, f3>>, <<st, st>>, 0)
    /\ UNCHANGED <<decoVars, lossVars, streamVars>>

\* net_init(rng, (N, 32, 32, 3)) of ResNet(num_classes)
InitResNet ==
    /\ shp.op = "none"      \* one init call per run of the script
    /\ \E n \in Batches, nc \in 1..MaxClasses :
         shp' = Infer("ResNet", ResNet(nc), <<n, 32, 32, 3>>, 0, <<>>, <<>>, nc)
    /\ UNCHANGED <<decoVars, lossVars, streamVars>>

NextShape ==
    \/ InitIdentityBlock
    \/ InitConvBlock
    \/ InitResNet

SpecShape == Init /\ [][NextShape]_vars

(***************************************************************************)
(* nn/losses/categorical_cross_entropy.py.  Numbers are integers and the   *)
(* mean is the fraction [num, den], not reduced.                           *)
(***************************************************************************)
RECURSIVE argmax_from(_, _, _)
\* scan of row[i..] keeping the index of the first largest entry seen
argmax_from(row, i, best) ==
    IF i > Len(row) THEN best
    ELSE argmax_from(row, i + 1, IF row[i] > row[best] THEN i ELSE best)

\* jnp.argmax of one row: the index of the first maximum
argmax(row) == argmax_from(row, 2, 1)

RECURSIVE SumCol(_, _)
\* the sum of column[i..] of a B x 1 array
SumCol(column, i) ==
    IF i > Len(column) THEN 0 ELSE column[i][1] + SumCol(column, i + 1)

\* the usual cross entropy, weighting every class by its target
categorical_cross_entropy_soft(predictions, targs) ==
    LET weighted == [i \in 1..Len(predictions) |->
                        << SumCol([c \in 1..Len(predictions[i]) |->
                                      <<targs[i][c] * predictions[i][c]>>], 1) >>]
    IN [num |-> -SumCol(weighted, 1), den |-> Len(predictions)]

categorical_cross_entropy(predictions, targs) ==
    LET target_class == [i \in 1..Len(targs) |-> argmax(targs[i])]
        \* take_along_axis(predictions, expand_dims(target_class, axis=1), axis=1)
        negative_log_likelihood ==
            [i \in 1..Len(predictions) |-> <<predictions[i][target_class[i]]>>]
        \* -jnp.mean(...)
        cross_entropy == [num |-> -SumCol(negative_log_likelihood, 1),
                          den |-> Len(negative_log_likelihood)]
    IN cross_entropy

PredVals == {-1, 0}
TargetVals == {0, 1}
Rows(b, k, vals) == [1..b -> [1..k -> vals]]

InitLoss ==
    /\ level = "WARNING" /\ net = NoLayer /\ ident = NoLayer /\ ret = NoCall
    /\ printed = <<>> /\ shp = NoShape
    /\ \E b \in 1..MaxB, k \in 1..MaxK :
         /\ preds \in Rows(b, k, PredVals)
         /\ targets \in Rows(b, k, TargetVals)
    /\ loss = [num |-> 0, den |-> 0]      \* not computed yet
    /\ num_train = 0 /\ batch_size = 0 /\ perm = <<>> /\ bi = 0 /\ epoch = 0
    /\ yielded = [images |-> <<>>, labels |-> <<>>]

\* loss = categorical_cross_entropy(predictions, targets)
ComputeLoss ==
    /\ loss.den = 0
    /\ loss' = categorical_cross_entropy(preds, targets)
    /\ UNCHANGED <<preds, targets, decoVars, shapeVars, streamVars>>

\* the loss of the same predictions against a batch that differs in one target entry
Relabel ==
    /\ loss.den # 0
    /\ \E i \in 1..Len(targets), c \in 1..Len(targets[1]), v \in TargetVals :
         /\ targets[i][c] # v
         /\ targets' = [targets EXCEPT ![i][c] = v]
    /\ loss' = categorical_cross_entropy(preds, targets')
    /\ UNCHANGED <<preds, decoVars, shapeVars, streamVars>>

NextLoss ==
    \/ ComputeLoss
    \/ Relabel

SpecLoss == InitLoss /\ [][NextLoss]_vars

(***************************************************************************)
(* data_stream of mnist_aug.py and resnet.py.  Image and label i of the    *)
(* training set are both written i; augment keeps the batch as it is.      *)
(***************************************************************************)
\* num_complete_batches, leftover = divmod(num_train, batch_size)
\* num_batches = num_complete_batches + bool(leftover)
num_batches ==
    (num_train \div batch_size) + (IF num_train % batch_size # 0 THEN 1 ELSE 0)

\* the Python slice seq[a:b], 0 <= a <= b
Slice(seq, a, b) ==
    SubSeq(seq, a + 1, IF b < Len(seq) THEN b ELSE Len(seq))

\* random.permutation(subkey, n): any permutation of 0..n-1
permutation(n) ==
    {p \in [1..n -> 0..(n - 1)] : \A i, j \in 1..n : i # j => p[i] # p[j]}

InitStream ==
    /\ level = "WARNING" /\ net = NoLayer /\ ident = NoLayer /\ ret = NoCall
    /\ printed = <<>> /\ shp = NoShape
    /\ preds = <<>> /\ targets = <<>> /\ loss = [num |-> 0, den |-> 0]
    \* the training sets hold more images than a batch (60000 and 50000 against 128)
    /\ num_train \in 1..MaxTrain
    /\ batch_size \in 1..MaxBatch
    /\ batch_size <= num_train
    /\ perm = <<>>
    /\ bi = 0
    /\ epoch = 0
    /\ yielded = [images |-> <<>>, labels |-> <<>>]

\* the batch the loop body yields for loop variable i under permutation p
Batch(p, i) ==
    LET batch_idx == Slice(p, i * batch_size, (i + 1) * batch_size)
    IN [images |-> batch_idx, labels |-> batch_idx]

\* next(batches) when the for loop is exhausted or not entered yet:
\* a new permutation is drawn and its first batch is yielded
NextBatchNewEpoch ==
    /\ epoch = 0 \/ bi = num_batches
    /\ epoch < MaxEpoch
    /\ \E p \in permutation(num_train) :
         /\ perm' = p
         /\ yielded' = Batch(p, 0)
    /\ bi' = 1
    /\ epoch' = epoch + 1
    /\ UNCHANGED <<num_train, batch_size, decoVars, shapeVars, lossVars>>

\* next(batches) inside the for loop
NextBatch ==
    /\ epoch > 0
    /\ bi < num_batches
    /\ yielded' = Batch(perm, bi)
    /\ bi' = bi + 1
    /\ UNCHANGED <<num_train, batch_size, perm, epoch, decoVars, shapeVars, lossVars>>

NextStream ==
    \/ NextBatchNewEpoch
    \/ NextBatch

SpecStream == InitStream /\ [][NextStream]_vars

(***************************************************************************)
(* Claims.                                                                 *)
(***************************************************************************)
Range(seq) == {seq[i] : i \in 1..Len(seq)}

\* C1: the pair the debug-wrapped serial returns at level INFO2 obeys the
\* layer contract: init(rng, input_shape) returns the wrapped serial's
\* (output shape, params, state) and apply(params, state, inputs) returns the
\* wrapped serial's (output, updated state).
C1_WrapperObeysLayerContract ==
    (ret.op \in {"serial.init", "serial.apply"} /\ ret.wrapped /\ ret.ref.exc = "none")
        => ret.got = ret.ref

\* C2: the debug-decorated Identity returns what the undecorated one returns,
\* at every level: built at a level other than INFO2 it is the wrapped pair
\* itself (and prints nothing), built at INFO2 its init and apply return the
\* wrapped functions' results and only print in addition.
C2_IdentityDecoratorTransparent ==
    /\ [](ret.op \in {"Identity.init", "Identity.apply"} =>
            /\ ret.got = ret.ref
            /\ ret.got.exc = "none"
            /\ (printed # <<>>) <=> ret.wrapped)
    /\ [][ident' # ident => (ident'.wrapped <=> level = "INFO2")]_vars

C2_Witness ==
    /\ ret.op = "Identity.apply"
    /\ ret.wrapped
    /\ ret.lvl # "INFO2"
    /\ ret.got = Ok(<<ret.args[3], ret.args[2]>>)
    /\ ret.args[2] # <<>>
    /\ Len(printed) = 1

\* C3: initialising IdentityBlock on any 4-dimensional input shape gives the
\* input shape back: the last convolution of the main branch, built from the
\* input shape, has input_shape[3] output channels, and both inputs of
\* FanInSum have the input shape.
C3_IdentityBlockKeepsShape ==
    shp.op = "IdentityBlock" =>
        /\ shp.out = shp.in
        /\ shp.trace[2] = <<shp.in, shp.in>>
        /\ make_main(shp.ks, shp.filters, shp.in).sub[7].out = shp.in[4]

C3_Witness ==
    /\ shp.op = "IdentityBlock"
    /\ shp.ks = 3
    /\ shp.filters[2] # shp.in[4]
    /\ shp.in[2] # shp.in[3]
    /\ shp.out = shp.in

\* the shape C4 states for input shape `in`, filters3 = f3 and strides (s, s)
ConvBlockShape(in, f3, s) ==
    <<in[1], ((in[2] - 1) \div s) + 1, ((in[3] - 1) \div s) + 1, f3>>

\* C4: the Main and Shortcut branches of ConvBlock infer the same shape
\* (N, floor((H-1)/s)+1, floor((W-1)/s)+1, f3), which is the block's output shape.
C4_ConvBlockBranchesAgree ==
    shp.op = "ConvBlock" =>
        LET e == ConvBlockShape(shp.in, shp.filters[3], shp.strides[1])
        IN /\ shp.trace[2] = <<e, e>>
           /\ shp.out = e

C4_Witness ==
    /\ shp.op = "ConvBlock"
    /\ shp.strides = <<2, 2>>
    /\ shp.ks = 3
    /\ shp.in = <<1, 4, 3, 2>>
    /\ shp.filters = <<2, 1, 1>>
    /\ shp.out = <<1, 2, 2, 1>>

\* C5: init of ResNet(num_classes) on (N, 32, 32, 3) threads the shapes
\* through every layer (32 -> 16 -> 8, 64 -> 128 -> 256 channels, AvgPool to
\* 1x1, Flatten to 256) and returns (N, num_classes); no layer raises.
C5_ResNetShapeInference ==
    shp.op = "ResNet" =>
        LET n == shp.in[1] IN
        /\ Len(shp.trace) = 15
        /\ \A i \in 1..Len(shp.trace) : shp.trace[i] # Err
        /\ shp.trace[1] = <<n, 32, 32, 64>>
        /\ shp.trace[5] = <<n, 32, 32, 64>>
        /\ shp.trace[6] = <<n, 16, 16, 128>>
        /\ shp.trace[8] = <<n, 16, 16, 128>>
        /\ shp.trace[9] = <<n, 8, 8, 256>>
        /\ shp.trace[11] = <<n, 8, 8, 256>>
        /\ shp.trace[12] = <<n, 1, 1, 256>>
        /\ shp.trace[13] = <<n, 256>>
        /\ shp.trace[14] = <<n, shp.nc>>
        /\ shp.out = <<n, shp.nc>>

C5_Witness ==
    /\ shp.op = "ResNet"
    /\ shp.in = <<1, 32, 32, 3>>
    /\ shp.nc = 2
    /\ shp.out = <<1, 2>>

\* the lowest index among the maxima of a row
FirstMax(row) ==
    CHOOSE c \in 1..Len(row) :
        /\ \A d \in 1..Len(row) : row[d] <= row[c]
        /\ \A d \in 1..(c - 1) : row[d] < row[c]

RECURSIVE SumPicked(_, _, _)
\* the sum over rows i.. of p[i, FirstMax(t[i])]
SumPicked(p, t, i) ==
    IF i > Len(p) THEN 0 ELSE p[i][FirstMax(t[i])] + SumPicked(p, t, i + 1)

\* C6: categorical_cross_entropy returns -(1/B) * sum_i predictions[i, c_i]
\* with c_i the lowest index of the maximum of targets[i]; two target batches
\* with the same per-row argmax give the same loss.
C6_LossDependsOnArgmaxOnly ==
    /\ [](loss.den # 0 =>
            /\ loss.den = Len(preds)
            /\ loss.num = -SumPicked(preds, targets, 1))
    /\ [][(/\ loss.den # 0
           /\ loss'.den # 0
           /\ \A i \in 1..Len(targets) : FirstMax(targets'[i]) = FirstMax(targets[i]))
          => loss' = loss]_vars

C6_Witness ==
    /\ loss.den = 2
    /\ Len(preds[1]) = 2
    /\ targets = <<[c \in 1..2 |-> 1], [c \in 1..2 |-> IF c = 2 THEN 1 ELSE 0]>>
    /\ preds = <<[c \in 1..2 |-> IF c = 1 THEN -1 ELSE 0], [c \in 1..2 |-> IF c = 2 THEN -1 ELSE 0]>>
    /\ loss.num = 2

\* C7: a forward pass of a network built with the debug-decorated serial
\* prints the start and end lines if and only if the root level is INFO2
\* when the forward pass runs, whatever the level was when serial was called.
C7_ForwardPassPrintsIffInfo2 ==
    (ret.op = "serial.apply" /\ Len(ret.args) = 3) =>
        ((StartForward \in Range(printed) /\ EndForward \in Range(printed))
            <=> ret.lvl = "INFO2")

\* C8: every item data_stream yields is a batch of exactly batch_size images
\* with their batch_size labels.
C8_EveryBatchFull ==
    epoch > 0 =>
        /\ Len(yielded.images) = batch_size
        /\ Len(yielded.labels) = batch_size
        /\ yielded.labels = yielded.images

====
